---- MODULE Spec2Model ----
(***************************************************************************)
(* Model of rag_memory_agent/core.py: the chunker, the ingestion pipeline  *)
(* (index_page_core), the visit tracker (visit_url_core), the ranking      *)
(* engine (search_documents_core) and the FAISS index + metadata ledger    *)
(* they share, in memory and on disk.                                      *)
(*                                                                         *)
(* Strings are sequences of one-character strings, so that slicing         *)
(* (text[i:i+size]) and concatenation (url + str(off) + chunk) are what    *)
(* Python does.  Time is counted in whole days.  Floats are fixed point.   *)
(***************************************************************************)
EXTENDS Integers, Sequences, FiniteSets, TLC

VARIABLES
  CHUNK_SIZE,          \* config.py: CHUNK_SIZE (read from the environment at import)
  CHUNK_OVERLAP,       \* config.py: CHUNK_OVERLAP
  MAX_CHUNKS_PER_DOC,  \* config.py: MAX_CHUNKS_PER_DOC
  index,               \* core.py: _index (None, or a flat inner-product index)
  meta,                \* core.py: _meta (the ledger, a list of dicts)
  index_file,          \* the file at INDEX_PATH (absent, or a written index)
  meta_file,           \* the file at META_PATH (absent, or the written rows)
  clock,               \* the wall clock, in days
  last,                \* the last completed call: its arguments and what it returned
  okVisits,            \* per url: the visit_url_core calls that returned ok = True
  log,                 \* the calls made so far, oldest first: what was called and its result
  gen,                 \* a _chunks generator object: its frame (text, i, n) and what it yielded
  pc,                  \* per thread: the place in the handler it runs
  loc                  \* per thread: the handler's local variables

vars == <<CHUNK_SIZE, CHUNK_OVERLAP, MAX_CHUNKS_PER_DOC, index, meta, index_file,
          meta_file, clock, last, okVisits, log, gen, pc, loc>>

config == <<CHUNK_SIZE, CHUNK_OVERLAP, MAX_CHUNKS_PER_DOC>>
store == <<index, meta, index_file, meta_file>>
threads == <<pc, loc>>

(***************************************************************************)
(* Bounds of the model.                                                    *)
(***************************************************************************)
MaxCalls == 3
MaxClock == 1
MaxTopK == 2

Max(a, b) == IF a >= b THEN a ELSE b
Min(a, b) == IF a <= b THEN a ELSE b

(***************************************************************************)
(* Python strings.                                                         *)
(***************************************************************************)
\* text[a:b] with 0 <= a, Python's clamping of b to len(text)
Slice(text, a, b) == SubSeq(text, a + 1, Min(b, Len(text)))

Digit(d) ==
  CASE d = 0 -> "0" [] d = 1 -> "1" [] d = 2 -> "2" [] d = 3 -> "3" [] d = 4 -> "4"
    [] d = 5 -> "5" [] d = 6 -> "6" [] d = 7 -> "7" [] d = 8 -> "8" [] d = 9 -> "9"

RECURSIVE Str(_)
\* str(off) of a non-negative int: its decimal digits
Str(n) == IF n < 10 THEN <<Digit(n)>> ELSE Str(n \div 10) \o <<Digit(n % 10)>>

\* hashlib.sha1(s.encode()).hexdigest()[:k]: SHA-1 is taken to be collision free, so
\* a digest is identified with the byte string it was computed from.
Sha1(s) == [sha1 |-> s]

\* datetime.utcnow().isoformat() + "Z"
IsoFormat(t) == <<t, "Z">>

\* datetime.fromisoformat(ts.replace("Z", "")).timestamp()
FromIso(ts) == ts[1]

(***************************************************************************)
(* Chunking.                                                               *)
(***************************************************************************)
\* a slip: the window advances by its whole size, dropping the overlap
StrideNoOverlap(size, overlap) == Max(1, size)

\* a slip: the floor of the step is 0, so the start may stand still
StrideFloorZero(size, overlap) == Max(0, size - overlap)

\* i += max(1, size - overlap)
Stride(size, overlap) == Max(1, size - overlap)

RECURSIVE ChunksFrom(_, _, _, _)
ChunksFrom(text, i, size, overlap) ==
  IF i < Len(text)
    THEN <<[off |-> i, chunk |-> Slice(text, i, i + size)]>>
           \o ChunksFrom(text, i + Stride(size, overlap), size, overlap)
    ELSE <<>>

\* list(_chunks(text, size, overlap)): everything the generator yields, in order
Chunks(text, size, overlap) == ChunksFrom(text, 0, size, overlap)

\* the generator object _chunks(text, size, overlap) returns, before its first next()
NewGen(text, size, overlap) ==
  [state |-> "running", text |-> text, size |-> size, overlap |-> overlap,
   i |-> 0, n |-> Len(text), out |-> <<>>]

\* one next() on the generator: a window is yielded while i < n, else it is exhausted
GenNext ==
  /\ gen.state = "running"
  /\ IF gen.i < gen.n
       THEN gen' = [gen EXCEPT
                      !.out = Append(@, [off |-> gen.i,
                                         chunk |-> Slice(gen.text, gen.i, gen.i + gen.size)]),
                      !.i = gen.i + Stride(gen.size, gen.overlap)]
       ELSE gen' = [gen EXCEPT !.state = "done"]
  /\ UNCHANGED <<config, store, clock, last, okVisits, log, threads>>

(***************************************************************************)
(* Embeddings.  The provider is an external service: it is taken to be a   *)
(* function of the text (the same text always gets the same raw vector)    *)
(* that may fail, and whose vector width is its own choice.  Raw vectors   *)
(* are integer; a normalised vector is in fixed point with 5 for 1.0.      *)
(***************************************************************************)
Direction(c) ==
  CASE c = "a" -> <<3, 4>>
    [] c = "b" -> <<4, 3>>
    [] c = "x" -> <<5, 0>>
    [] c = "0" -> <<0, 5>>
    [] OTHER -> <<0, 0>>

\* what the provider answers for one text, as a vector of width dim
ProviderVector(text, dim) ==
  [i \in 1..dim |->
     IF text = <<>> \/ i > 2 THEN 0 ELSE Len(text) * Direction(text[1])[i]]

RECURSIVE SumSq(_, _)
SumSq(v, i) == IF i = 0 THEN 0 ELSE v[i] * v[i] + SumSq(v, i - 1)

RECURSIVE SqrtIn(_, _, _)
\* the r in lo..hi with r * r <= s < (r + 1) * (r + 1), by bisection
SqrtIn(s, lo, hi) ==
  IF lo >= hi THEN lo
  ELSE LET mid == (lo + hi + 1) \div 2
       IN  IF mid * mid <= s THEN SqrtIn(s, mid, hi) ELSE SqrtIn(s, lo, mid - 1)

\* np.linalg.norm of one row (the raw vectors used have integer norms)
Norm(v) == LET s == SumSq(v, Len(v)) IN SqrtIn(s, 0, Min(s, 46340))

\* arr / norms with norms[norms == 0.0] = 1.0, for one row
Normalize(v) ==
  LET n == Norm(v)
      d == IF n = 0 THEN 1 ELSE n
  IN  [i \in 1..Len(v) |-> (v[i] * 5) \div d]

\* _embed_batch(texts) when the provider answers with vectors of width dim
EmbedBatch(texts, dim) ==
  [k \in 1..Len(texts) |-> Normalize(ProviderVector(texts[k], dim))]

RECURSIVE Dot(_, _, _)
\* inner product of two vectors of the same width
Dot(u, v, i) == IF i = 0 THEN 0 ELSE u[i] * v[i] + Dot(u, v, i - 1)

(***************************************************************************)
(* The FAISS index and the ledger, in memory and on disk.                  *)
(***************************************************************************)
NoIndex == [is_none |-> TRUE, d |-> 0, xb |-> <<>>]
NoFile == [exists |-> FALSE, data |-> <<>>]

\* int("..."): the value of a digit and of a string of decimal digits
DigitValue(c) == CHOOSE d \in 0..9 : Digit(d) = c

RECURSIVE ParseInt(_)
ParseInt(ds) ==
  IF Len(ds) = 1 THEN DigitValue(ds[1])
  ELSE 10 * ParseInt(SubSeq(ds, 1, Len(ds) - 1)) + DigitValue(ds[Len(ds)])

\* json.dumps(row, ensure_ascii=False) + "\n": one line per row, each key with its
\* value, a str written between quotes and an int in decimal digits
JsonString(v) == <<"str", v>>
JsonNumber(n) == <<"num", Str(n)>>
JsonDumps(row) ==
  [url |-> JsonString(row.url), title |-> JsonString(row.title),
   timestamp |-> JsonString(row.timestamp), chunk_id |-> JsonString(row.chunk_id),
   offset_start |-> JsonNumber(row.offset_start), snippet |-> JsonString(row.snippet),
   chunk_hash |-> JsonString(row.chunk_hash), chunk |-> JsonString(row.chunk),
   visits |-> JsonNumber(row.visits), last_seen |-> JsonString(row.last_seen)]

\* json.loads(line): a quoted value is a str, a run of digits an int
JsonLoads(line) ==
  [k \in DOMAIN line |-> IF line[k][1] = "num" THEN ParseInt(line[k][2]) ELSE line[k][2]]

RECURSIVE Flatten(_)
\* the vectors as the flat array of floats an IndexFlat keeps and writes
Flatten(xb) == IF xb = <<>> THEN <<>> ELSE xb[1] \o Flatten(Tail(xb))

\* faiss.write_index: the width, the number of vectors and the flat array
WriteIndex(idx) == [d |-> idx.d, ntotal |-> Len(idx.xb), codes |-> Flatten(idx.xb)]

\* faiss.read_index: the rows are cut out of the flat array by the width
ReadIndex(data) ==
  [is_none |-> FALSE, d |-> data.d,
   xb |-> [i \in 1..data.ntotal |-> SubSeq(data.codes, (i - 1) * data.d + 1, i * data.d)]]

\* _load(): both globals are replaced by what the files hold
LoadIndex(ifile) == IF ifile.exists THEN ReadIndex(ifile.data) ELSE NoIndex
\* a slip: the last line is dropped, as if it were the empty end of the file
LoadMetaShort(mfile) ==
  IF mfile.exists
    THEN [i \in 1..(Len(mfile.data) - 1) |-> JsonLoads(mfile.data[i])] ELSE <<>>

LoadMeta(mfile) ==
  IF mfile.exists THEN [i \in 1..Len(mfile.data) |-> JsonLoads(mfile.data[i])] ELSE <<>>

\* _ensure_loaded(): _load() runs whenever _index is None
LoadedIndex(idx, ifile) == IF idx.is_none THEN LoadIndex(ifile) ELSE idx
LoadedMeta(idx, m, mfile) == IF idx.is_none THEN LoadMeta(mfile) ELSE m

\* _save(): the index file is written only when there is an index
SavedIndexFile(idx, ifile) ==
  IF idx.is_none THEN ifile ELSE [exists |-> TRUE, data |-> WriteIndex(idx)]
SavedMetaFile(m) == [exists |-> TRUE, data |-> [i \in 1..Len(m) |-> JsonDumps(m[i])]]

\* _index.ntotal
NTotal(idx) == Len(idx.xb)

\* a slip: the index is made anew for every batch and holds that batch alone
AppendIndexFresh(idx, vecs) == [is_none |-> FALSE, d |-> Len(vecs[1]), xb |-> vecs]

\* the index _append leaves in _index: created with the batch's width when None
AppendIndex(idx, vecs) ==
  LET base == IF idx.is_none THEN [is_none |-> FALSE, d |-> Len(vecs[1]), xb |-> <<>>] ELSE idx
  IN  [base EXCEPT !.xb = base.xb \o vecs]

\* IndexFlatIP.add asserts that the batch has the index's width
DimensionOk(idx, dim) == idx.is_none \/ idx.d = dim

\* a slip: the ledger gets the batch without its last row
ExtendMetaShort(m, rows) == m \o SubSeq(rows, 1, Len(rows) - 1)

\* _meta.extend(rows)
ExtendMeta(m, rows) == m \o rows

(***************************************************************************)
(* index_page_core.                                                        *)
(***************************************************************************)
\* hashlib.sha1((url + str(off) + chunk).encode()).hexdigest()[:16]
ChunkHash(url, off, chunk) == Sha1(url \o Str(off) \o chunk)

\* f"{base}#c{len(rows):04d}" with base = sha1(url)[:10]
ChunkId(url, k) == <<Sha1(url), k>>

\* {m.get("chunk_hash") for m in _meta if "chunk_hash" in m}
Existing(m) == {m[i].chunk_hash : i \in 1..Len(m)}

RECURSIVE MaxVisitsOf(_, _, _)
\* max([int(m.get("visits", 0)) for m in _meta if m.get("url") == url], default=0)
MaxVisitsOf(m, url, i) ==
  IF i = 0 THEN 0
  ELSE LET rest == MaxVisitsOf(m, url, i - 1)
       IN  IF m[i].url = url THEN Max(m[i].visits, rest) ELSE rest

\* a slip: new rows start cold, without the floor of 1
VisitsInitCold(m, url) == MaxVisitsOf(m, url, Len(m))

\* a slip: the prior visits are taken over the rows of every url
VisitsInitAnyUrl(m, url) ==
  LET vs == {m[i].visits : i \in 1..Len(m)}
  IN  Max(1, IF vs = {} THEN 0 ELSE CHOOSE v \in vs : \A w \in vs : w <= v)

\* visits_init = max(1, prior_visits)
VisitsInit(m, url) == Max(1, MaxVisitsOf(m, url, Len(m)))

\* the dict appended to rows for one accepted chunk
NewRow(url, title, ts, k, c, visits_init) ==
  [url |-> url, title |-> title, timestamp |-> ts, chunk_id |-> ChunkId(url, k),
   offset_start |-> c.off, snippet |-> Slice(c.chunk, 0, 240),
   chunk_hash |-> ChunkHash(url, c.off, c.chunk), chunk |-> c.chunk,
   visits |-> visits_init, last_seen |-> ts]

\* the loop's test "ch in existing": existing is built once, before the loop
SeenBefore(ch, existing, rows) == ch \in existing

\* a slip: the cap is tested with > and lets one more row in
CapReachedLate(rows, cap) == Len(rows) > cap

\* the loop's test "len(rows) >= MAX_CHUNKS_PER_DOC"
CapReached(rows, cap) == Len(rows) >= cap

RECURSIVE IndexLoop(_, _, _, _, _, _, _, _, _)
\* for off, chunk in _chunks(text): break at the cap, skip known hashes, else accept
IndexLoop(chs, k, rows, existing, url, title, ts, visits_init, cap) ==
  IF k > Len(chs) THEN rows
  ELSE IF CapReached(rows, cap) THEN rows
  ELSE IF SeenBefore(ChunkHash(url, chs[k].off, chs[k].chunk), existing, rows)
    THEN IndexLoop(chs, k + 1, rows, existing, url, title, ts, visits_init, cap)
    ELSE IndexLoop(chs, k + 1,
                   Append(rows, NewRow(url, title, ts, Len(rows), chs[k], visits_init)),
                   existing, url, title, ts, visits_init, cap)

\* rows, as it stands when the loop is left
BuildRows(m, url, title, text, ts, size, overlap, cap) ==
  IndexLoop(Chunks(text, size, overlap), 1, <<>>, Existing(m), url, title, ts,
            VisitsInit(m, url), cap)

\* payloads: the chunk texts of rows, in order
Payloads(rows) == [k \in 1..Len(rows) |-> rows[k].chunk]

Idle == \A t \in DOMAIN pc : pc[t] = "idle"

\* what the previous call leaves for the next one to compare with
PrevOf(l) ==
  IF l.op = "index" /\ l.raised = "" THEN <<l.url, l.title, l.text>> ELSE <<>>

\* a slip: the rows go into the ledger before the provider has answered, so a
\* failed provider call leaves them there
IndexDocumentEager(url, title, text, dim) ==
  LET idx0 == LoadedIndex(index, index_file)
      m0 == LoadedMeta(index, meta, meta_file)
      ts == IsoFormat(clock)
      rows == BuildRows(m0, url, title, text, ts, CHUNK_SIZE, CHUNK_OVERLAP,
                        MAX_CHUNKS_PER_DOC)
      call == [op |-> "index", url |-> url, title |-> title, text |-> text,
               provider |-> dim, before |-> Len(m0), prev |-> PrevOf(last),
               embedded |-> <<Payloads(rows)>>]
      ok(n) == [ok |-> TRUE, indexed_chunks |-> n, url |-> url, title |-> title]
  IN  /\ Idle
      /\ IF rows = <<>>
           THEN /\ index' = idx0
                /\ meta' = m0
                /\ UNCHANGED <<index_file, meta_file>>
                /\ last' = [call EXCEPT !.provider = -1, !.embedded = <<>>]
                             @@ [raised |-> "", ret |-> ok(0)]
         ELSE IF dim = 0
           THEN /\ index' = idx0
                /\ meta' = ExtendMeta(m0, rows)
                /\ UNCHANGED <<index_file, meta_file>>
                /\ last' = call @@ [raised |-> "ProviderError", ret |-> <<>>]
         ELSE IF ~DimensionOk(idx0, dim)
           THEN /\ index' = idx0
                /\ meta' = m0
                /\ UNCHANGED <<index_file, meta_file>>
                /\ last' = call @@ [raised |-> "AssertionError", ret |-> <<>>]
         ELSE /\ index' = AppendIndex(idx0, EmbedBatch(Payloads(rows), dim))
              /\ meta' = ExtendMeta(m0, rows)
              /\ index_file' = SavedIndexFile(index', index_file)
              /\ meta_file' = SavedMetaFile(meta')
              /\ last' = call @@ [raised |-> "", ret |-> ok(Len(rows))]
      /\ log' = Append(log, [op |-> "index", arg |-> <<url, title, text>>,
                             n |-> IF last'.raised = "" THEN last'.ret.indexed_chunks ELSE -1])
      /\ UNCHANGED <<config, clock, okVisits, gen, threads>>

\* a slip: the batch goes to _embed_batch before the test for an empty batch
IndexDocumentEmbedFirst(url, title, text, dim) ==
  LET idx0 == LoadedIndex(index, index_file)
      m0 == LoadedMeta(index, meta, meta_file)
      ts == IsoFormat(clock)
      rows == BuildRows(m0, url, title, text, ts, CHUNK_SIZE, CHUNK_OVERLAP,
                        MAX_CHUNKS_PER_DOC)
      call == [op |-> "index", url |-> url, title |-> title, text |-> text,
               provider |-> dim, before |-> Len(m0), prev |-> PrevOf(last),
               embedded |-> <<Payloads(rows)>>]
      ok(n) == [ok |-> TRUE, indexed_chunks |-> n, url |-> url, title |-> title]
  IN  /\ Idle
      /\ IF dim = 0
           THEN /\ index' = idx0
                /\ meta' = m0
                /\ UNCHANGED <<index_file, meta_file>>
                /\ last' = call @@ [raised |-> "ProviderError", ret |-> <<>>]
         ELSE IF rows = <<>>
           THEN /\ index' = idx0
                /\ meta' = m0
                /\ UNCHANGED <<index_file, meta_file>>
                /\ last' = call @@ [raised |-> "", ret |-> ok(0)]
         ELSE IF ~DimensionOk(idx0, dim)
           THEN /\ index' = idx0
                /\ meta' = m0
                /\ UNCHANGED <<index_file, meta_file>>
                /\ last' = call @@ [raised |-> "AssertionError", ret |-> <<>>]
         ELSE /\ index' = AppendIndex(idx0, EmbedBatch(Payloads(rows), dim))
              /\ meta' = ExtendMeta(m0, rows)
              /\ index_file' = SavedIndexFile(index', index_file)
              /\ meta_file' = SavedMetaFile(meta')
              /\ last' = call @@ [raised |-> "", ret |-> ok(Len(rows))]
      /\ log' = Append(log, [op |-> "index", arg |-> <<url, title, text>>,
                             n |-> IF last'.raised = "" THEN last'.ret.indexed_chunks ELSE -1])
      /\ UNCHANGED <<config, clock, okVisits, gen, threads>>

\* One call of index_page_core(url, title, text), run alone.  dim is what the
\* embedding provider does if it is called: 0 for a failed call, else the width of
\* the vectors it answers with.
IndexDocument(url, title, text, dim) ==
  LET idx0 == LoadedIndex(index, index_file)
      m0 == LoadedMeta(index, meta, meta_file)
      ts == IsoFormat(clock)
      rows == BuildRows(m0, url, title, text, ts, CHUNK_SIZE, CHUNK_OVERLAP,
                        MAX_CHUNKS_PER_DOC)
      call == [op |-> "index", url |-> url, title |-> title, text |-> text,
               provider |-> dim, before |-> Len(m0), prev |-> PrevOf(last),
               embedded |-> <<Payloads(rows)>>]
      ok(n) == [ok |-> TRUE, indexed_chunks |-> n, url |-> url, title |-> title]
  IN  /\ Idle
      /\ IF rows = <<>>
           THEN /\ index' = idx0
                /\ meta' = m0
                /\ UNCHANGED <<index_file, meta_file>>
                /\ last' = [call EXCEPT !.provider = -1, !.embedded = <<>>]
                             @@ [raised |-> "", ret |-> ok(0)]
         ELSE IF dim = 0
           THEN /\ index' = idx0
                /\ meta' = m0
                /\ UNCHANGED <<index_file, meta_file>>
                /\ last' = call @@ [raised |-> "ProviderError", ret |-> <<>>]
         ELSE IF ~DimensionOk(idx0, dim)
           THEN /\ index' = idx0
                /\ meta' = m0
                /\ UNCHANGED <<index_file, meta_file>>
                /\ last' = call @@ [raised |-> "AssertionError", ret |-> <<>>]
         ELSE /\ index' = AppendIndex(idx0, EmbedBatch(Payloads(rows), dim))
              /\ meta' = ExtendMeta(m0, rows)
              /\ index_file' = SavedIndexFile(index', index_file)
              /\ meta_file' = SavedMetaFile(meta')
              /\ last' = call @@ [raised |-> "", ret |-> ok(Len(rows))]
      /\ log' = Append(log, [op |-> "index", arg |-> <<url, title, text>>,
                             n |-> IF last'.raised = "" THEN last'.ret.indexed_chunks ELSE -1])
      /\ UNCHANGED <<config, clock, okVisits, gen, threads>>

(***************************************************************************)
(* visit_url_core.                                                         *)
(***************************************************************************)
\* a slip: the loop stops at the first row of the url
VisitRowsFirst(m, url, now_iso) ==
  [i \in 1..Len(m) |->
     IF m[i].url = url /\ \A j \in 1..(i - 1) : m[j].url # url
       THEN [m[i] EXCEPT !.last_seen = now_iso, !.visits = m[i].visits + 1]
       ELSE m[i]]

\* a slip: the visit stamps timestamp instead of last_seen
VisitRowsStamp(m, url, now_iso) ==
  [i \in 1..Len(m) |->
     IF m[i].url = url
       THEN [m[i] EXCEPT !.timestamp = now_iso, !.visits = m[i].visits + 1]
       ELSE m[i]]

\* the loop over _meta: every row of the url gets last_seen and visits + 1
VisitRows(m, url, now_iso) ==
  [i \in 1..Len(m) |->
     IF m[i].url = url
       THEN [m[i] EXCEPT !.last_seen = now_iso, !.visits = m[i].visits + 1]
       ELSE m[i]]

\* a slip: found is set by any row, whatever its url
FoundAny(m, url) == Len(m) > 0

\* found: some row has the url
Found(m, url) == \E i \in 1..Len(m) : m[i].url = url

\* One call of visit_url_core(url), run alone.
RecordVisit(url) ==
  LET idx0 == LoadedIndex(index, index_file)
      m0 == LoadedMeta(index, meta, meta_file)
      m1 == VisitRows(m0, url, IsoFormat(clock))
      call == [op |-> "visit", url |-> url, before |-> Len(m0), raised |-> "",
               prev |-> <<>>]
  IN  /\ Idle
      /\ index' = idx0
      /\ IF Found(m0, url)
           THEN /\ meta' = m1
                /\ index_file' = SavedIndexFile(idx0, index_file)
                /\ meta_file' = SavedMetaFile(m1)
                /\ okVisits' = [okVisits EXCEPT ![url] = @ + 1]
                /\ last' = call @@ [ret |-> [ok |-> TRUE, url |-> url,
                                             visits |-> MaxVisitsOf(m1, url, Len(m1))]]
           ELSE /\ meta' = m0
                /\ UNCHANGED <<index_file, meta_file, okVisits>>
                /\ last' = call @@ [ret |-> [ok |-> FALSE, url |-> url, visits |-> 0,
                                             reason |-> "url_not_indexed"]]
      /\ log' = Append(log, [op |-> "visit", arg |-> <<url>>, n |-> last'.ret.visits])
      /\ UNCHANGED <<config, clock, gen, threads>>

\* time passes between calls
Tick ==
  /\ Idle
  /\ clock < MaxClock
  /\ clock' = clock + 1
  /\ UNCHANGED <<config, store, last, okVisits, log, gen, threads>>

(***************************************************************************)
(* search_documents_core.  Scores are fixed point: a similarity is in      *)
(* 1/25ths, freshness and popularity in 1/1024ths, a weight in 1/100ths.   *)
(***************************************************************************)
\* config names core.py imports and the source does not define: the values are the
\* design's (non-negative weights, similarity dominant)
HALF_LIFE_DAYS == 1
FRESHNESS_WEIGHT == 60
POPULARITY_WEIGHT == 40
SIM_WEIGHT == 80
TEMP_WEIGHT == 20

RECURSIVE Halved(_, _)
Halved(x, k) == IF k = 0 THEN x ELSE Halved(x \div 2, k - 1)

\* math.exp(-lambda_ * days) with lambda_ = math.log(2) / max(1e-6, HALF_LIFE_DAYS)
Freshness(days) == Halved(1024, days \div HALF_LIFE_DAYS)

RECURSIVE ExpThirds(_)
\* math.exp(-visits / 3.0): e^(-1/3) = 0.7165...
ExpThirds(v) == IF v <= 0 THEN 1024 ELSE (ExpThirds(v - 1) * 7165) \div 10000

\* 1.0 - math.exp(-visits / 3.0)
Popularity(visits) == 1024 - ExpThirds(visits)

\* hybrid = FRESHNESS_WEIGHT * freshness + POPULARITY_WEIGHT * popularity
Hybrid(days, visits) ==
  FRESHNESS_WEIGHT * Freshness(days) + POPULARITY_WEIGHT * Popularity(visits)

\* final = SIM_WEIGHT * float(sim) + TEMP_WEIGHT * float(hybrid), over one denominator
FinalScore(sim, days, visits) ==
  SIM_WEIGHT * sim * 1024 * 100 + TEMP_WEIGHT * Hybrid(days, visits) * 25

\* days = max(0.0, (now - ts_sec) / 86400.0)
AgeDays(now, ts) == Max(0, now - FromIso(ts))

RECURSIVE InjSeqs(_, _)
\* the sequences of n different elements of S
InjSeqs(S, n) ==
  IF n = 0 THEN {<<>>}
  ELSE {Append(s, x) : <<s, x>> \in
          {p \in InjSeqs(S, n - 1) \X S : \A i \in 1..(n - 1) : p[1][i] # p[2]}}

\* _index.search(qv, k): the labels I[0] it may answer with.  IndexFlatIP scans the
\* rows in order and a row enters the result heap only by beating its smallest inner
\* product, so of rows with equal inner product the earlier ones are kept.  The kept
\* rows come by inner product descending, rows of equal inner product in whatever
\* order the heap leaves them, then -1 up to length k.
FaissSearch(idx, qv, k) ==
  LET n == Min(k, NTotal(idx))
      rows == 0..(NTotal(idx) - 1)
      sim(r) == Dot(idx.xb[r + 1], qv, idx.d)
      beats(a, b) == sim(a) > sim(b) \/ (sim(a) = sim(b) /\ a < b)
      kept == {r \in rows : Cardinality({a \in rows : beats(a, r)}) < n}
      ranked == {s \in InjSeqs(kept, n) : \A i \in 1..(n - 1) : sim(s[i]) >= sim(s[i + 1])}
  IN  {s \o [i \in 1..(k - n) |-> -1] : s \in ranked}

\* D[0]: the inner products that go with the labels (FAISS fills -inf for a -1)
FaissDistances(idx, qv, I) ==
  [i \in 1..Len(I) |-> IF I[i] < 0 THEN -1000 ELSE Dot(idx.xb[I[i] + 1], qv, idx.d)]

\* the dict appended to hits for one candidate, with the row it was read from
Hit(m, idx, sim, now) ==
  [row |-> idx,
   sim |-> sim,
   hit |-> [url |-> m.url, title |-> m.title,
            snippet |-> IF m.snippet # <<>> THEN m.snippet ELSE Slice(m.chunk, 0, 240),
            chunk_id |-> m.chunk_id,
            score |-> FinalScore(sim, AgeDays(now, m.timestamp), m.visits),
            timestamp |-> m.timestamp]]

\* the loop's test "idx < 0 or idx >= len(_meta)"
Skipped(idx, m) == idx < 0 \/ idx >= Len(m)

RECURSIVE CollectHits(_, _, _, _, _)
\* for idx, sim in zip(I[0], D[0]): skip the labels with no ledger row, score the rest
CollectHits(I, D, m, now, i) ==
  IF i > Len(I) THEN <<>>
  ELSE (IF Skipped(I[i], m) THEN <<>> ELSE <<Hit(m[I[i] + 1], I[i], D[i], now)>>)
         \o CollectHits(I, D, m, now, i + 1)

\* a slip: the sort without reverse=True, lowest score first
InsertHitAscending(sorted, h) ==
  LET p == Cardinality({i \in 1..Len(sorted) : sorted[i].hit.score <= h.hit.score})
  IN  SubSeq(sorted, 1, p) \o <<h>> \o SubSeq(sorted, p + 1, Len(sorted))

\* a slip: an unstable order, a hit goes before the hits of equal score
InsertHitBeforeTies(sorted, h) ==
  LET p == Cardinality({i \in 1..Len(sorted) : sorted[i].hit.score > h.hit.score})
  IN  SubSeq(sorted, 1, p) \o <<h>> \o SubSeq(sorted, p + 1, Len(sorted))

\* where list.sort(key=score, reverse=True) puts h among already sorted hits: after
\* every hit whose score is not lower (the sort is stable, also when reversed)
InsertHit(sorted, h) ==
  LET p == Cardinality({i \in 1..Len(sorted) : sorted[i].hit.score >= h.hit.score})
  IN  SubSeq(sorted, 1, p) \o <<h>> \o SubSeq(sorted, p + 1, Len(sorted))

RECURSIVE SortHits(_, _)
\* hits.sort(key=lambda x: x["score"], reverse=True)
SortHits(hits, i) == IF i = 0 THEN <<>> ELSE InsertHit(SortHits(hits, i - 1), hits[i])

\* hits[:top_k]
Truncate(hits, top_k) == SubSeq(hits, 1, Min(top_k, Len(hits)))

\* the ranked hits for the labels I: score, sort, truncate
RankedHits(I, D, m, now, top_k) ==
  LET hits == CollectHits(I, D, m, now, 1)
  IN  Truncate(SortHits(hits, Len(hits)), top_k)

\* a slip: the query is embedded before the index is tested, so a search of an
\* empty store calls the provider
SearchEmbedFirst(query, top_k, dim) ==
  LET idx0 == LoadedIndex(index, index_file)
      m0 == LoadedMeta(index, meta, meta_file)
      call == [op |-> "search", query |-> query, top_k |-> top_k, provider |-> dim,
               before |-> Len(m0), now |-> clock, prev |-> <<>>]
      none == [I |-> <<>>, D |-> <<>>, ranked |-> <<>>]
  IN  /\ Idle
      /\ index' = idx0
      /\ meta' = m0
      /\ IF dim = 0
           THEN last' = call @@ none @@ [raised |-> "ProviderError", ret |-> <<>>]
         ELSE IF idx0.is_none \/ NTotal(idx0) = 0
           THEN last' = call @@ none @@ [raised |-> "", ret |-> <<>>]
         ELSE IF dim # idx0.d
           THEN last' = call @@ none @@ [raised |-> "AssertionError", ret |-> <<>>]
         ELSE \E I \in FaissSearch(idx0, EmbedBatch(<<query>>, dim)[1], top_k * 4) :
                LET D == FaissDistances(idx0, EmbedBatch(<<query>>, dim)[1], I)
                    ranked == RankedHits(I, D, m0, clock, top_k)
                IN  last' = call @@ [I |-> I, D |-> D, ranked |-> ranked, raised |-> "",
                                     ret |-> [i \in 1..Len(ranked) |-> ranked[i].hit]]
      /\ log' = Append(log, [op |-> "search", arg |-> <<query, top_k>>,
                             n |-> IF last'.raised = "" THEN Len(last'.ret) ELSE -1])
      /\ UNCHANGED <<config, index_file, meta_file, clock, okVisits, gen, threads>>

\* One call of search_documents_core(query, top_k), run alone.  dim is what the
\* embedding provider does if it is called (0: it fails).
Search(query, top_k, dim) ==
  LET idx0 == LoadedIndex(index, index_file)
      m0 == LoadedMeta(index, meta, meta_file)
      call == [op |-> "search", query |-> query, top_k |-> top_k, provider |-> dim,
               before |-> Len(m0), now |-> clock, prev |-> <<>>]
      none == [I |-> <<>>, D |-> <<>>, ranked |-> <<>>]
  IN  /\ Idle
      /\ index' = idx0
      /\ meta' = m0
      /\ IF idx0.is_none \/ NTotal(idx0) = 0
           THEN last' = [call EXCEPT !.provider = -1] @@ none @@ [raised |-> "", ret |-> <<>>]
         ELSE IF dim = 0
           THEN last' = call @@ none @@ [raised |-> "ProviderError", ret |-> <<>>]
         ELSE IF dim # idx0.d
           THEN last' = call @@ none @@ [raised |-> "AssertionError", ret |-> <<>>]
         ELSE \E I \in FaissSearch(idx0, EmbedBatch(<<query>>, dim)[1], top_k * 4) :
                LET D == FaissDistances(idx0, EmbedBatch(<<query>>, dim)[1], I)
                    ranked == RankedHits(I, D, m0, clock, top_k)
                IN  last' = call @@ [I |-> I, D |-> D, ranked |-> ranked, raised |-> "",
                                     ret |-> [i \in 1..Len(ranked) |-> ranked[i].hit]]
      /\ log' = Append(log, [op |-> "search", arg |-> <<query, top_k>>,
                             n |-> IF last'.raised = "" THEN Len(last'.ret) ELSE -1])
      /\ UNCHANGED <<config, index_file, meta_file, clock, okVisits, gen, threads>>

(***************************************************************************)
(* The inputs of the model and the sequential specification: calls run one *)
(* at a time, as when a single client drives the core.                     *)
(***************************************************************************)
Threads == {1, 2}
Urls == {<<"d">>, <<"d", "1">>}
ScenarioUrls == {<<"d", "o", "c", "1">>}
AllUrls == Urls \cup ScenarioUrls
Titles == {<<"t">>}
Texts == {<<>>, <<"a">>, <<"x", "0", "a">>}
Queries == {<<"a">>, <<"x">>}
Dims == {2, 3}
Configs == {<<2, 1, 2>>, <<2, 0, 3>>}

InitStore ==
  /\ index = NoIndex
  /\ meta = <<>>
  /\ index_file = NoFile
  /\ meta_file = NoFile
  /\ clock = 0
  /\ last = [op |-> "none", raised |-> "", prev |-> <<>>]
  /\ okVisits = [u \in AllUrls |-> 0]
  /\ log = <<>>
  /\ gen = [state |-> "none"]
  /\ pc = [t \in Threads |-> "idle"]
  /\ loc = [t \in Threads |-> <<>>]

Init ==
  /\ \E cfg \in Configs :
       /\ CHUNK_SIZE = cfg[1]
       /\ CHUNK_OVERLAP = cfg[2]
       /\ MAX_CHUNKS_PER_DOC = cfg[3]
  /\ InitStore

Next ==
  \/ \E url \in Urls, title \in Titles, text \in Texts, dim \in {0} \cup Dims :
       Len(log) < MaxCalls /\ IndexDocument(url, title, text, dim)
  \/ \E url \in Urls : Len(log) < MaxCalls /\ RecordVisit(url)
  \/ \E query \in Queries, top_k \in 1..MaxTopK, dim \in {0} \cup Dims :
       Len(log) < MaxCalls /\ Search(query, top_k, dim)
  \/ Tick

Spec == Init /\ [][Next]_vars

(***************************************************************************)
(* Properties of the sequential specification.                             *)
(***************************************************************************)
\* the rows the last call appended: the ledger past its length before the call
Appended == SubSeq(meta, last.before + 1, Len(meta))

\* the ledger as the last call found it
Before == SubSeq(meta, 1, last.before)

RECURSIVE NewChunks(_, _, _, _)
\* the chunks of a text whose hash is not in a set of hashes, in offset order
NewChunks(chs, url, hashes, k) ==
  IF k > Len(chs) THEN <<>>
  ELSE (IF ChunkHash(url, chs[k].off, chs[k].chunk) \in hashes THEN <<>> ELSE <<chs[k]>>)
         \o NewChunks(chs, url, hashes, k + 1)

\* the chunks of the last indexed text that were not in the ledger when it was called
LastNew ==
  NewChunks(Chunks(last.text, CHUNK_SIZE, CHUNK_OVERLAP), last.url, Existing(Before), 1)

\* the last index call got vectors from the provider and the index took them
ProviderDelivered == last.provider > 0 /\ last.provider = index.d

\* C1: in every state reached by index_document, record_visit and search calls from
\* an empty store, failed calls included, the Vector Store holds as many vectors as
\* the ledger holds records, and the vector at row i is the embedding of the chunk
\* text of record i.
C1_Aligned ==
  /\ NTotal(index) = Len(meta)
  /\ \A i \in 1..Len(meta) :
       i <= NTotal(index) =>
         index.xb[i] = Normalize(ProviderVector(meta[i].chunk, index.d))

\* C1's case: rows are in the store and the last index call failed on a dimension
\* mismatch
C1_Witness ==
  /\ Len(meta) >= 2
  /\ last.op = "index"
  /\ last.raised = "AssertionError"

\* C1's case for a failed provider call
C1_WitnessProvider ==
  /\ Len(meta) >= 2
  /\ last.op = "index"
  /\ last.raised = "ProviderError"

\* C2 as stated: an index_document call right after a successful call with the same
\* url, title and text returns indexed_chunks = 0 and leaves the ledger length as it
\* was, whatever the length of the text.
C2_Idempotent ==
  (/\ last.op = "index"
   /\ last.raised = ""
   /\ last.prev = <<last.url, last.title, last.text>>)
  => /\ last.ret.indexed_chunks = 0
     /\ Len(meta) = last.before

\* C2 for the texts the cap does not cut: the same, when the text has at most
\* MAX_CHUNKS_PER_DOC chunks
C2_IdempotentUnderCap ==
  (/\ last.op = "index"
   /\ last.raised = ""
   /\ last.prev = <<last.url, last.title, last.text>>
   /\ Len(Chunks(last.text, CHUNK_SIZE, CHUNK_OVERLAP)) <= MAX_CHUNKS_PER_DOC)
  => /\ last.ret.indexed_chunks = 0
     /\ Len(meta) = last.before

\* C9 as stated: every index_document call appends at most MAX_CHUNKS_PER_DOC
\* records, and a call whose text has more than MAX_CHUNKS_PER_DOC chunks that are
\* not in the ledger appends exactly MAX_CHUNKS_PER_DOC, reports them, takes the
\* first ones in offset order, and raises nothing.
C9_CapAsStated ==
  last.op = "index" =>
    /\ Len(Appended) <= MAX_CHUNKS_PER_DOC
    /\ Len(LastNew) > MAX_CHUNKS_PER_DOC =>
         /\ last.raised = ""
         /\ last.ret.indexed_chunks = MAX_CHUNKS_PER_DOC
         /\ Len(Appended) = MAX_CHUNKS_PER_DOC
         /\ \A k \in 1..MAX_CHUNKS_PER_DOC :
              /\ Appended[k].offset_start = LastNew[k].off
              /\ Appended[k].chunk = LastNew[k].chunk

\* C9, amended: every index_document call appends at most MAX_CHUNKS_PER_DOC
\* records; a call whose text has more than MAX_CHUNKS_PER_DOC chunks whose hash is
\* not in the ledger either raises the embedding call's error and appends nothing,
\* or returns indexed_chunks = MAX_CHUNKS_PER_DOC having appended exactly the first
\* MAX_CHUNKS_PER_DOC of them in offset order; it raises only if the embedding call
\* failed or answered with another width than the index's.
C9_Cap ==
  last.op = "index" =>
    /\ Len(Appended) <= MAX_CHUNKS_PER_DOC
    /\ last.raised # "" => Len(Appended) = 0 /\ ~ProviderDelivered
    /\ (Len(LastNew) > MAX_CHUNKS_PER_DOC /\ ProviderDelivered) =>
         /\ last.raised = ""
         /\ last.ret.indexed_chunks = MAX_CHUNKS_PER_DOC
         /\ Len(Appended) = MAX_CHUNKS_PER_DOC
         /\ \A k \in 1..MAX_CHUNKS_PER_DOC :
              /\ Appended[k].offset_start = LastNew[k].off
              /\ Appended[k].chunk = LastNew[k].chunk
              /\ Appended[k].chunk_hash = ChunkHash(last.url, LastNew[k].off, LastNew[k].chunk)

\* C9's case: a call on a text with more new chunks than the cap has returned
C9_Witness ==
  /\ last.op = "index"
  /\ last.raised = ""
  /\ Len(LastNew) > MAX_CHUNKS_PER_DOC
  /\ Len(Appended) = MAX_CHUNKS_PER_DOC
  /\ last.before > 0

(***************************************************************************)
(* Deduplication: ingestion and visits alone, with inputs on which the     *)
(* concatenation url + str(off) + chunk is ambiguous.                      *)
(***************************************************************************)
\* 11 characters: with size 2 and overlap 1 the chunk at offset 1 is "0c" and the
\* chunk at offset 10 is "c"
DigitText == <<"x", "0", "c", "x", "x", "x", "x", "x", "x", "x", "c">>
DedupTexts == {<<"a">>, <<"x", "0", "a">>, DigitText}
DedupConfigs == {<<2, 1, 12>>, <<2, 1, 2>>}

InitDedup ==
  /\ \E cfg \in DedupConfigs :
       /\ CHUNK_SIZE = cfg[1]
       /\ CHUNK_OVERLAP = cfg[2]
       /\ MAX_CHUNKS_PER_DOC = cfg[3]
  /\ InitStore

NextDedup ==
  \/ \E url \in Urls, title \in Titles, text \in DedupTexts, dim \in {0, 2} :
       Len(log) < MaxCalls /\ IndexDocument(url, title, text, dim)
  \/ \E url \in Urls : Len(log) < MaxCalls /\ RecordVisit(url)

SpecDedup == InitDedup /\ [][NextDedup]_vars

\* C3, first part: no two ledger records have the same chunk_hash
C3_NoDuplicateHash ==
  \A i, j \in 1..Len(meta) : i # j => meta[i].chunk_hash # meta[j].chunk_hash

\* C3, second part: a chunk of the text just indexed has the chunk_hash of a ledger
\* record only if it has that record's url, offset and chunk text
C3_HashIdentifiesChunk ==
  last.op = "index" =>
    \A k \in 1..Len(Chunks(last.text, CHUNK_SIZE, CHUNK_OVERLAP)) :
      \A i \in 1..Len(meta) :
        LET c == Chunks(last.text, CHUNK_SIZE, CHUNK_OVERLAP)[k]
        IN  ChunkHash(last.url, c.off, c.chunk) = meta[i].chunk_hash =>
              /\ meta[i].url = last.url
              /\ meta[i].offset_start = c.off
              /\ meta[i].chunk = c.chunk

\* C3 as stated: in every state reached by index_document and record_visit calls from
\* an empty store, no two ledger records have the same chunk_hash, and two chunks get
\* the same chunk_hash only if they have the same url, offset and chunk text.
C3_UniqueHash == C3_NoDuplicateHash /\ C3_HashIdentifiesChunk

(***************************************************************************)
(* The chunker alone: one generator per text, size and overlap, run to     *)
(* exhaustion.                                                             *)
(***************************************************************************)
MaxTextLen == 7
MaxChunkSize == 4

\* the text of n characters "1234567890123..."
TextOfLen(n) == [i \in 1..n |-> Digit(i % 10)]

InitChunk ==
  /\ CHUNK_SIZE \in 1..MaxChunkSize
  /\ CHUNK_OVERLAP \in 0..MaxChunkSize
  /\ MAX_CHUNKS_PER_DOC = 500
  /\ index = NoIndex
  /\ meta = <<>>
  /\ index_file = NoFile
  /\ meta_file = NoFile
  /\ clock = 0
  /\ last = [op |-> "none", raised |-> "", prev |-> <<>>]
  /\ okVisits = [u \in AllUrls |-> 0]
  /\ log = <<>>
  /\ \E n \in 0..MaxTextLen : gen = NewGen(TextOfLen(n), CHUNK_SIZE, CHUNK_OVERLAP)
  /\ pc = [t \in Threads |-> "idle"]
  /\ loc = [t \in Threads |-> <<>>]

NextChunk == GenNext

SpecChunk == InitChunk /\ [][NextChunk]_vars

\* the characters of positions [a, a + len) of a text, one by one
Window(text, a, len) == [j \in 1..len |-> text[a + j]]

\* C10: for a text of length N and 0 <= O < S, the windows chunk(text, S, O) yields
\* start at 0, S-O, 2*(S-O), ... (all of these below N once it is exhausted), each
\* window is text[start : start + min(S, N - start)], and together they cover [0, N).
C10_Coverage ==
  (gen.state # "none" /\ gen.overlap < gen.size) =>
    LET N == Len(gen.text)
        S == gen.size
        O == gen.overlap
    IN  /\ \A k \in 1..Len(gen.out) :
             /\ gen.out[k].off = (k - 1) * (S - O)
             /\ gen.out[k].off < N
             /\ gen.out[k].chunk = Window(gen.text, gen.out[k].off, Min(S, N - gen.out[k].off))
        /\ gen.state = "done" =>
             /\ {gen.out[k].off : k \in 1..Len(gen.out)}
                  = {p \in 0..(N - 1) : p % (S - O) = 0}
             /\ \A p \in 0..(N - 1) :
                  \E k \in 1..Len(gen.out) :
                    gen.out[k].off <= p /\ p < gen.out[k].off + Len(gen.out[k].chunk)

\* C10's case: an exhausted generator that yielded overlapping windows, the last one
\* shorter than the size
C10_Witness ==
  /\ gen.state = "done"
  /\ gen.overlap > 0
  /\ gen.overlap < gen.size
  /\ Len(gen.out) >= 3
  /\ Len(gen.out[Len(gen.out)].chunk) < gen.size

\* the generator run to exhaustion yields what Chunks lists
GenIsChunks ==
  gen.state = "done" => gen.out = Chunks(gen.text, gen.size, gen.overlap)

(***************************************************************************)
(* The scenario of the design's section 8: the default chunking (size 900, *)
(* overlap 160, cap 500), one url and one text of 2000 characters.         *)
(***************************************************************************)
MaxScenarioCalls == 4

Doc1 == <<"d", "o", "c", "1">>
ScenarioQueries == {<<"a">>}
ScenarioText == [i \in 1..2000 |-> IF i % 7 = 0 THEN "b" ELSE "a"]

InitScenario ==
  /\ CHUNK_SIZE = 900
  /\ CHUNK_OVERLAP = 160
  /\ MAX_CHUNKS_PER_DOC = 500
  /\ InitStore

NextScenario ==
  \/ \E url \in ScenarioUrls, title \in Titles, dim \in {0, 2} :
       Len(log) < MaxScenarioCalls /\ IndexDocument(url, title, ScenarioText, dim)
  \/ \E url \in ScenarioUrls : Len(log) < MaxScenarioCalls /\ RecordVisit(url)
  \/ \E query \in ScenarioQueries : Len(log) < MaxScenarioCalls /\ Search(query, 1, 2)

SpecScenario == InitScenario /\ [][NextScenario]_vars

\* the calls of the scenario, in order: index, index again, visit, visit
ScenarioCalls ==
  <<[op |-> "index", arg |-> <<Doc1, <<"t">>, ScenarioText>>],
    [op |-> "index", arg |-> <<Doc1, <<"t">>, ScenarioText>>],
    [op |-> "visit", arg |-> <<Doc1>>],
    [op |-> "visit", arg |-> <<Doc1>>]>>

\* the first k calls made are the first k calls of the scenario, none of them raised
ScenarioPrefix(k) ==
  /\ Len(log) = k
  /\ \A i \in 1..k :
       /\ log[i].op = ScenarioCalls[i].op
       /\ log[i].arg = ScenarioCalls[i].arg
       /\ log[i].n >= 0

\* what the scenario's first two calls do: 3 chunks at offsets 0, 740 and 1480, then
\* 0 new chunks
ScenarioIndexing ==
  /\ ScenarioPrefix(1) =>
       /\ log[1].n = 3
       /\ [i \in 1..Len(meta) |-> meta[i].offset_start] = <<0, 740, 1480>>
  /\ ScenarioPrefix(2) => log[2].n = 0 /\ Len(meta) = 3

\* C7 as stated: on an empty store with size 900 and overlap 160, indexing "doc1"
\* with a text of length 2000 indexes 3 chunks at offsets 0, 740 and 1480, indexing
\* it again indexes 0, and the second of two record_visit("doc1") calls reports
\* visits = 2.
C7_Scenario ==
  /\ ScenarioIndexing
  /\ ScenarioPrefix(4) => last.ret.visits = 2

\* C7, amended: the same, and the second record_visit("doc1") reports visits = 3
\* (the first reports 2): the records start at visits = 1.
C7_ScenarioThree ==
  /\ ScenarioIndexing
  /\ ScenarioPrefix(3) => last.ret.visits = 2
  /\ ScenarioPrefix(4) => last.ret.visits = 3 /\ \A i \in 1..Len(meta) : meta[i].visits = 3

\* C7's case: the four calls of the scenario have been made
C7_Witness == ScenarioPrefix(4) /\ last.op = "visit" /\ last.ret.ok /\ Len(meta) = 3

(***************************************************************************)
(* Ranking: chunks of one character, so that many rows have the same       *)
(* embedding and tie on similarity.                                        *)
(***************************************************************************)
RankDocs ==
  {<<<<"d">>, <<"a", "a", "a", "a">>>>, <<<<"d", "1">>, <<"a">>>>,
   <<<<"d", "1">>, <<"b">>>>, <<<<"d">>, <<"b">>>>}
RankQueries == {<<"a">>, <<"b">>}

InitRank ==
  /\ CHUNK_SIZE = 1
  /\ CHUNK_OVERLAP = 0
  /\ MAX_CHUNKS_PER_DOC = 4
  /\ InitStore

NextRank ==
  \/ \E doc \in RankDocs, title \in Titles :
       Len(log) < MaxCalls /\ IndexDocument(doc[1], title, doc[2], 2)
  \/ \E url \in Urls : Len(log) < MaxCalls /\ RecordVisit(url)
  \/ \E query \in RankQueries, top_k \in 1..MaxTopK :
       Len(log) < MaxCalls /\ Search(query, top_k, 2)
  \/ Tick

SpecRank == InitRank /\ [][NextRank]_vars

\* the last call was a search that ranked something
Searched == last.op = "search" /\ last.raised = "" /\ last.I # <<>>

\* the raw similarity of ledger row r (counted from 0) to the last query
SimOf(r) == Dot(index.xb[r + 1], EmbedBatch(<<last.query>>, last.provider)[1], index.d)

\* the age of ledger row r when the last search ran
AgeOf(r) == AgeDays(last.now, meta[r + 1].timestamp)

\* row a has the raw similarity of row b and is younger with the same visits, or
\* more visited with the same age
Better(a, b) ==
  /\ SimOf(a) = SimOf(b)
  /\ \/ AgeOf(a) < AgeOf(b) /\ meta[a + 1].visits = meta[b + 1].visits
     \/ AgeOf(a) = AgeOf(b) /\ meta[a + 1].visits > meta[b + 1].visits

\* the places of row r in the last result
PlacesOf(r) == {p \in 1..Len(last.ranked) : last.ranked[p].row = r}

\* row a does not rank lower than row b: where b is in the result, a is there too,
\* ahead of it
NotLower(a, b) ==
  PlacesOf(b) # {} =>
    /\ PlacesOf(a) # {}
    /\ \A p \in PlacesOf(a), q \in PlacesOf(b) : p < q

\* the rows the similarity search answered with
Candidates == {last.I[i] : i \in 1..Len(last.I)} \ {-1}

ConcUrls == {<<"d">>}
ConcTexts == {<<"a">>, <<"b">>}
ConcQueries == {<<"a">>}
ConcDim == 2

\* the calls begun so far: the returned ones and the ones in flight
Started == Len(log) + Cardinality({t \in Threads : pc[t] # "idle"})

\* a handler returns or raises: the thread is free again
Return(t, entry, l) ==
  /\ pc' = [pc EXCEPT ![t] = "idle"]
  /\ loc' = [loc EXCEPT ![t] = <<>>]
  /\ log' = Append(log, entry)
  /\ last' = l @@ [thread |-> t, prev |-> <<>>]

\* index_page_core up to the provider call: _ensure_loaded, the existing hashes, the
\* prior visits and the rows of the new chunks, all read from _meta as it is now
IndexBegin(t, url, title, text) ==
  LET idx0 == LoadedIndex(index, index_file)
      m0 == LoadedMeta(index, meta, meta_file)
      rows == BuildRows(m0, url, title, text, IsoFormat(clock), CHUNK_SIZE,
                        CHUNK_OVERLAP, MAX_CHUNKS_PER_DOC)
      ret == [ok |-> TRUE, indexed_chunks |-> 0, url |-> url, title |-> title]
  IN  /\ pc[t] = "idle"
      /\ index' = idx0
      /\ meta' = m0
      /\ IF rows = <<>>
           THEN Return(t, [op |-> "index", arg |-> <<url, title, text>>, n |-> 0],
                       [op |-> "index", raised |-> "", ret |-> ret])
           ELSE /\ pc' = [pc EXCEPT ![t] = "index_embed"]
                /\ loc' = [loc EXCEPT ![t] = [op |-> "index", url |-> url, title |-> title,
                                              text |-> text, rows |-> rows]]
                /\ UNCHANGED <<log, last>>
      /\ UNCHANGED <<config, index_file, meta_file, clock, okVisits, gen>>

\* vecs = _embed_batch(payloads): the thread waits for the provider
IndexEmbed(t, dim) ==
  /\ pc[t] = "index_embed"
  /\ IF dim = 0
       THEN Return(t, [op |-> "index", arg |-> <<loc[t].url, loc[t].title, loc[t].text>>,
                       n |-> -1],
                   [op |-> "index", raised |-> "ProviderError", ret |-> <<>>])
       ELSE /\ pc' = [pc EXCEPT ![t] = "index_append"]
            /\ loc' = [loc EXCEPT ![t] = loc[t] @@
                         [vecs |-> EmbedBatch(Payloads(loc[t].rows), dim), dim |-> dim]]
            /\ UNCHANGED <<log, last>>
  /\ UNCHANGED <<config, store, clock, okVisits, gen>>

\* _append: the test "if _index is None"
IndexAppend(t) ==
  /\ pc[t] = "index_append"
  /\ pc' = [pc EXCEPT ![t] = "index_add"]
  /\ loc' = [loc EXCEPT ![t] = loc[t] @@ [create |-> index.is_none]]
  /\ UNCHANGED <<config, store, clock, last, okVisits, log, gen>>

\* _append: _index = faiss.IndexFlatIP(dim) if the test found none, then
\* _index.add(vecs)
IndexAdd(t) ==
  LET base == IF loc[t].create THEN NoIndex ELSE index
  IN  /\ pc[t] = "index_add"
      /\ IF DimensionOk(base, loc[t].dim)
           THEN /\ index' = AppendIndex(base, loc[t].vecs)
                /\ pc' = [pc EXCEPT ![t] = "index_extend"]
                /\ UNCHANGED <<loc, log, last>>
           ELSE /\ index' = base
                /\ Return(t, [op |-> "index",
                              arg |-> <<loc[t].url, loc[t].title, loc[t].text>>, n |-> -1],
                          [op |-> "index", raised |-> "AssertionError", ret |-> <<>>])
      /\ UNCHANGED <<config, meta, index_file, meta_file, clock, okVisits, gen>>

\* _append: _meta.extend(rows)
IndexExtend(t) ==
  /\ pc[t] = "index_extend"
  /\ meta' = ExtendMeta(meta, loc[t].rows)
  /\ pc' = [pc EXCEPT ![t] = "index_save"]
  /\ UNCHANGED <<config, index, index_file, meta_file, clock, last, okVisits, log, gen,
                 loc>>

\* _append: _save() writes both files from the globals as they are now; the handler
\* returns the number of rows it added
IndexSave(t) ==
  /\ pc[t] = "index_save"
  /\ index_file' = SavedIndexFile(index, index_file)
  /\ meta_file' = SavedMetaFile(meta)
  /\ Return(t, [op |-> "index", arg |-> <<loc[t].url, loc[t].title, loc[t].text>>,
                n |-> Len(loc[t].rows)],
            [op |-> "index", raised |-> "",
             ret |-> [ok |-> TRUE, indexed_chunks |-> Len(loc[t].rows),
                      url |-> loc[t].url, title |-> loc[t].title]])
  /\ UNCHANGED <<config, index, meta, clock, okVisits, gen>>

\* visit_url_core up to its loop: _ensure_loaded, now_iso, found = False,
\* max_visits = 0.  k is the place of the for loop in _meta.
VisitBegin(t, url) ==
  /\ pc[t] = "idle"
  /\ index' = LoadedIndex(index, index_file)
  /\ meta' = LoadedMeta(index, meta, meta_file)
  /\ pc' = [pc EXCEPT ![t] = "visit_loop"]
  /\ loc' = [loc EXCEPT ![t] = [op |-> "visit", url |-> url, now_iso |-> IsoFormat(clock),
                                k |-> 1, found |-> FALSE, max_visits |-> 0, v |-> 0]]
  /\ UNCHANGED <<config, index_file, meta_file, clock, last, okVisits, log, gen>>

\* for row in _meta: the list iterator takes the next row of the list as it is now;
\* a row of the url gets last_seen and the thread reads v = visits + 1
VisitLoop(t) ==
  LET k == loc[t].k
  IN  /\ pc[t] = "visit_loop"
      /\ IF k > Len(meta)
           THEN /\ pc' = [pc EXCEPT ![t] = "visit_end"]
                /\ UNCHANGED <<meta, loc>>
         ELSE IF meta[k].url # loc[t].url
           THEN /\ loc' = [loc EXCEPT ![t].k = k + 1]
                /\ UNCHANGED <<meta, pc>>
         ELSE /\ meta' = [meta EXCEPT ![k].last_seen = loc[t].now_iso]
              /\ loc' = [loc EXCEPT ![t].found = TRUE, ![t].v = meta[k].visits + 1]
              /\ pc' = [pc EXCEPT ![t] = "visit_store"]
      /\ UNCHANGED <<config, index, index_file, meta_file, clock, last, okVisits, log, gen>>

\* row["visits"] = v; max_visits = max(max_visits, v)
VisitStore(t) ==
  LET k == loc[t].k
  IN  /\ pc[t] = "visit_store"
      /\ meta' = [meta EXCEPT ![k].visits = loc[t].v]
      /\ loc' = [loc EXCEPT ![t].max_visits = Max(@, loc[t].v), ![t].k = k + 1]
      /\ pc' = [pc EXCEPT ![t] = "visit_loop"]
      /\ UNCHANGED <<config, index, index_file, meta_file, clock, last, okVisits, log, gen>>

\* after the loop: url_not_indexed, or _save() and the visits count
VisitEnd(t) ==
  LET url == loc[t].url
  IN  /\ pc[t] = "visit_end"
      /\ IF loc[t].found
           THEN /\ index_file' = SavedIndexFile(index, index_file)
                /\ meta_file' = SavedMetaFile(meta)
                /\ okVisits' = [okVisits EXCEPT ![url] = @ + 1]
                /\ Return(t, [op |-> "visit", arg |-> <<url>>, n |-> loc[t].max_visits],
                          [op |-> "visit", raised |-> "",
                           ret |-> [ok |-> TRUE, url |-> url,
                                    visits |-> loc[t].max_visits]])
           ELSE /\ UNCHANGED <<index_file, meta_file, okVisits>>
                /\ Return(t, [op |-> "visit", arg |-> <<url>>, n |-> 0],
                          [op |-> "visit", raised |-> "",
                           ret |-> [ok |-> FALSE, url |-> url, visits |-> 0,
                                    reason |-> "url_not_indexed"]])
      /\ UNCHANGED <<config, index, meta, clock, gen>>

\* search_documents_core up to the provider call: _ensure_loaded and the test
\* "_index is None or _index.ntotal == 0"
SearchBegin(t, query, top_k) ==
  LET idx0 == LoadedIndex(index, index_file)
  IN  /\ pc[t] = "idle"
      /\ index' = idx0
      /\ meta' = LoadedMeta(index, meta, meta_file)
      /\ IF idx0.is_none \/ NTotal(idx0) = 0
           THEN Return(t, [op |-> "search", arg |-> <<query, top_k>>, n |-> 0],
                       [op |-> "search", raised |-> "", ret |-> <<>>])
           ELSE /\ pc' = [pc EXCEPT ![t] = "search_embed"]
                /\ loc' = [loc EXCEPT ![t] = [op |-> "search", query |-> query,
                                              top_k |-> top_k]]
                /\ UNCHANGED <<log, last>>
      /\ UNCHANGED <<config, index_file, meta_file, clock, okVisits, gen>>

\* qv = _embed_batch([query]): the thread waits for the provider
SearchEmbed(t, dim) ==
  /\ pc[t] = "search_embed"
  /\ IF dim = 0
       THEN Return(t, [op |-> "search", arg |-> <<loc[t].query, loc[t].top_k>>, n |-> -1],
                   [op |-> "search", raised |-> "ProviderError", ret |-> <<>>])
       ELSE /\ pc' = [pc EXCEPT ![t] = "search_scan"]
            /\ loc' = [loc EXCEPT ![t] = loc[t] @@
                         [qv |-> EmbedBatch(<<loc[t].query>>, dim)[1], dim |-> dim]]
            /\ UNCHANGED <<log, last>>
  /\ UNCHANGED <<config, store, clock, okVisits, gen>>

\* D, I = _index.search(qv, k) on _index as it is now
SearchScan(t) ==
  /\ pc[t] = "search_scan"
  /\ IF loc[t].dim # index.d
       THEN Return(t, [op |-> "search", arg |-> <<loc[t].query, loc[t].top_k>>, n |-> -1],
                   [op |-> "search", raised |-> "AssertionError", ret |-> <<>>])
       ELSE /\ \E I \in FaissSearch(index, loc[t].qv, loc[t].top_k * 4) :
                 loc' = [loc EXCEPT ![t] = loc[t] @@
                           [I |-> I, D |-> FaissDistances(index, loc[t].qv, I)]]
            /\ pc' = [pc EXCEPT ![t] = "search_rank"]
            /\ UNCHANGED <<log, last>>
  /\ UNCHANGED <<config, store, clock, okVisits, gen>>

\* the loop over zip(I[0], D[0]) reads _meta as it is now; sort, truncate, return
SearchRank(t) ==
  LET ranked == RankedHits(loc[t].I, loc[t].D, meta, clock, loc[t].top_k)
  IN  /\ pc[t] = "search_rank"
      /\ Return(t, [op |-> "search", arg |-> <<loc[t].query, loc[t].top_k>>,
                    n |-> Len(ranked)],
                [op |-> "search", raised |-> "", I |-> loc[t].I, ranked |-> ranked,
                 ret |-> [i \in 1..Len(ranked) |-> ranked[i].hit]])
      /\ UNCHANGED <<config, store, clock, okVisits, gen>>

InitConc ==
  /\ CHUNK_SIZE = 2
  /\ CHUNK_OVERLAP = 1
  /\ MAX_CHUNKS_PER_DOC = 2
  /\ InitStore

NextConc ==
  \/ \E t \in Threads, url \in ConcUrls, title \in Titles, text \in ConcTexts :
       Started < MaxCalls /\ IndexBegin(t, url, title, text)
  \/ \E t \in Threads, dim \in {0, ConcDim} : IndexEmbed(t, dim)
  \/ \E t \in Threads : IndexAppend(t)
  \/ \E t \in Threads : IndexAdd(t)
  \/ \E t \in Threads : IndexExtend(t)
  \/ \E t \in Threads : IndexSave(t)
  \/ \E t \in Threads, url \in ConcUrls : Started < MaxCalls /\ VisitBegin(t, url)
  \/ \E t \in Threads : VisitLoop(t)
  \/ \E t \in Threads : VisitStore(t)
  \/ \E t \in Threads : VisitEnd(t)
  \/ \E t \in Threads, query \in ConcQueries, top_k \in 1..1 :
       Started < MaxCalls /\ SearchBegin(t, query, top_k)
  \/ \E t \in Threads, dim \in {0, ConcDim} : SearchEmbed(t, dim)
  \/ \E t \in Threads : SearchScan(t)
  \/ \E t \in Threads : SearchRank(t)

SpecConc == InitConc /\ [][NextConc]_vars

(***************************************************************************)
(* Properties of the concurrent specification.                             *)
(***************************************************************************)
\* only index_document calls have been made, and all have returned
OnlyIndexCalls == Idle /\ \A i \in 1..Len(log) : log[i].op = "index"

RECURSIVE Acknowledged(_)
\* the number of rows the returned index_document calls reported as indexed
Acknowledged(i) ==
  IF i = 0 THEN 0
  ELSE Acknowledged(i - 1) + (IF log[i].op = "index" /\ log[i].n > 0 THEN log[i].n ELSE 0)

\* vector row r (from 0) is the embedding of the chunk of ledger record r
RowAligned(r) == index.xb[r + 1] = EmbedBatch(<<meta[r + 1].chunk>>, index.d)[1]

\* C4: after index_document calls that ran in parallel threads have all returned,
\* the store is one a serial execution could have produced: as many vectors as
\* ledger records, vector i the embedding of record i, every acknowledged record
\* present, and no chunk_hash twice.
C4_Serialisable ==
  OnlyIndexCalls =>
    /\ NTotal(index) = Len(meta)
    /\ \A r \in 0..(Min(NTotal(index), Len(meta)) - 1) : RowAligned(r)
    /\ Len(meta) = Acknowledged(Len(log))
    /\ \A i, j \in 1..Len(meta) : i # j => meta[i].chunk_hash # meta[j].chunk_hash

\* C5: whenever a search is about to scan the vectors, there are as many vectors as
\* ledger records, and whenever it is about to look its labels up in the ledger,
\* every label has a ledger record and that record is the one of the vector.
C5_ConsistentSnapshot ==
  \A t \in Threads :
    /\ pc[t] = "search_scan" => NTotal(index) = Len(meta)
    /\ pc[t] = "search_rank" =>
         \A i \in 1..Len(loc[t].I) :
           loc[t].I[i] >= 0 => loc[t].I[i] < Len(meta) /\ RowAligned(loc[t].I[i])

\* C6: after all calls have returned, every record of a url has the visits value it
\* was created with (1) plus the number of record_visit calls that found the url,
\* so the records of one url, those appended concurrently included, agree.
C6_NoLostVisits ==
  Idle => \A i \in 1..Len(meta) : meta[i].visits = 1 + okVisits[meta[i].url]

(***************************************************************************)
(* Restarts.  _index and _meta are module globals: a new process starts    *)
(* with _index = None and _meta = [], whatever the files hold, and the     *)
(* first call's _ensure_loaded reads the files back.                       *)
(***************************************************************************)
\* the process ends and a new one imports core.py; the files stay
Restart ==
  /\ Idle
  /\ last.op # "restart"
  /\ index' = NoIndex
  /\ meta' = <<>>
  /\ last' = [op |-> "restart", raised |-> "", prev |-> <<>>]
  /\ log' = Append(log, [op |-> "restart", arg |-> <<>>, n |-> 0])
  /\ UNCHANGED <<config, index_file, meta_file, clock, okVisits, gen, threads>>

\* the calls made so far, restarts not counted
CallsMade == Cardinality({i \in 1..Len(log) : log[i].op # "restart"})

RestartTexts == {<<"a">>, <<"x", "0", "a">>}
RestartQueries == {<<"a">>}

InitRestart ==
  /\ CHUNK_SIZE = 2
  /\ CHUNK_OVERLAP = 1
  /\ MAX_CHUNKS_PER_DOC = 2
  /\ InitStore

NextRestart ==
  \/ \E url \in Urls, title \in Titles, text \in RestartTexts, dim \in {0} \cup Dims :
       CallsMade < MaxCalls /\ IndexDocument(url, title, text, dim)
  \/ \E url \in Urls : CallsMade < MaxCalls /\ RecordVisit(url)
  \/ \E query \in RestartQueries, top_k \in 1..MaxTopK, dim \in {0, 2} :
       CallsMade < MaxCalls /\ Search(query, top_k, dim)
  \/ Tick
  \/ Restart

SpecRestart == InitRestart /\ [][NextRestart]_vars

\* the ledger and the vectors the next call will work on: what _ensure_loaded leaves
Ledger == LoadedMeta(index, meta, meta_file)
Vectors == LoadedIndex(index, index_file)

\* this step is a record_visit call for a url with no record in the ledger
VisitUnknown == log' # log /\ last'.op = "visit" /\ ~\E i \in 1..Len(Ledger) : Ledger[i].url = last'.url

\* C11: a record_visit call for a url with no ledger record raises nothing, returns
\* ok = false with visits = 0, and leaves the ledger, the vectors and both files as
\* they were.
C11_UnknownVisit ==
  [][VisitUnknown =>
       /\ last'.raised = ""
       /\ last'.ret.ok = FALSE
       /\ last'.ret.visits = 0
       /\ Ledger' = Ledger
       /\ Vectors' = Vectors
       /\ index_file' = index_file
       /\ meta_file' = meta_file]_vars

\* C11's case: a visit of an unknown url has returned on a store that holds records
\* of another url
C11_Witness ==
  /\ last.op = "visit"
  /\ last.ret.ok = FALSE
  /\ Len(meta) > 0
  /\ meta_file.exists
  /\ \A i \in 1..Len(meta) : meta[i].url # last.url

\* this step is a record_visit call for a url that has records in the ledger
VisitKnown == log' # log /\ last'.op = "visit" /\ \E i \in 1..Len(Ledger) : Ledger[i].url = last'.url

\* C12: a record_visit call for a url with ledger records succeeds, adds exactly 1
\* to the visits of every record of the url, sets their last_seen to the time of the
\* call and returns the highest visits among them; and no step of any kind lowers
\* the visits of a record that is in the ledger.
C12_Popularity ==
  [][/\ VisitKnown =>
          /\ last'.raised = ""
          /\ last'.ret.ok
          /\ Len(Ledger') = Len(Ledger)
          /\ \A i \in 1..Len(Ledger) :
               Ledger[i].url = last'.url =>
                 /\ Ledger'[i].visits = Ledger[i].visits + 1
                 /\ Ledger'[i].last_seen = IsoFormat(clock)
                 /\ Ledger'[i].visits <= last'.ret.visits
          /\ \E i \in 1..Len(Ledger) :
               Ledger[i].url = last'.url /\ Ledger'[i].visits = last'.ret.visits
     /\ \A i \in 1..Len(Ledger) :
          i <= Len(Ledger') /\ Ledger'[i].visits >= Ledger[i].visits]_vars

\* C12's case: the second visit of a url with two records has returned
C12_Witness ==
  /\ last.op = "visit"
  /\ last.ret.ok
  /\ last.ret.visits = 3
  /\ Cardinality({i \in 1..Len(meta) : meta[i].url = last.url}) >= 2
  /\ clock > 0

\* this step is an index_document call on which the embedding provider failed
ProviderFailed == log' # log /\ last'.op = "index" /\ last'.raised = "ProviderError"

\* this step is an index_document call that succeeds with the arguments of the call
\* before it, on which the provider had failed
Retry ==
  /\ last.op = "index"
  /\ last.raised = "ProviderError"
  /\ log' # log
  /\ last'.op = "index"
  /\ last'.raised = ""
  /\ <<last'.url, last'.title, last'.text>> = <<last.url, last.title, last.text>>

\* the chunks an index_document(url, text) call is to add to a ledger m: the first
\* MAX_CHUNKS_PER_DOC chunks of the text whose hash m does not hold
ToIndex(m, url, text) ==
  LET new == NewChunks(Chunks(text, CHUNK_SIZE, CHUNK_OVERLAP), url, Existing(m), 1)
  IN  SubSeq(new, 1, Min(MAX_CHUNKS_PER_DOC, Len(new)))

\* C13: an index_document call on which the embedding provider fails raises the
\* error and appends nothing: ledger, vectors and both files are as before; and the
\* same call made again with a working provider indexes the chunks it would have
\* indexed had the failed call not been made.
C13_ProviderFailure ==
  [][/\ ProviderFailed =>
          /\ Ledger' = Ledger
          /\ Vectors' = Vectors
          /\ index_file' = index_file
          /\ meta_file' = meta_file
     /\ Retry =>
          LET todo == ToIndex(Ledger, last'.url, last'.text)
          IN  /\ last'.ret.indexed_chunks = Len(todo)
              /\ Len(Ledger') = Len(Ledger) + Len(todo)
              /\ SubSeq(Ledger', 1, Len(Ledger)) = Ledger
              /\ \A k \in 1..Len(todo) :
                   /\ Ledger'[Len(Ledger) + k].chunk = todo[k].chunk
                   /\ Ledger'[Len(Ledger) + k].offset_start = todo[k].off
                   /\ Ledger'[Len(Ledger) + k].url = last'.url]_vars

\* C13's case: a call on an empty store failed (with no index yet, only the provider
\* can fail) and the same call made again has indexed chunks
C13_Witness ==
  /\ Len(log) >= 2
  /\ log[Len(log) - 1].op = "index" /\ log[Len(log) - 1].n = -1
  /\ log[Len(log)].op = "index" /\ log[Len(log)].n = 2
  /\ log[Len(log)].arg = log[Len(log) - 1].arg
  /\ last.op = "index" /\ last.raised = "" /\ last.before = 0
  /\ Len(meta) = 2

\* the last call reported a success that changed the store
ReportedSuccess ==
  \/ last.op = "index" /\ last.raised = "" /\ last.ret.indexed_chunks > 0
  \/ last.op = "visit" /\ last.ret.ok

\* C14: once index_document has returned indexed_chunks > 0 or record_visit has
\* returned ok = true, the metadata file holds one line per ledger record, in order,
\* that reads back as the record, and the index file reads back as the vectors in
\* memory: a load from the files gives the store that is in memory.
C14_Durable ==
  ReportedSuccess =>
    /\ meta_file.exists
    /\ index_file.exists
    /\ Len(meta_file.data) = Len(meta)
    /\ \A i \in 1..Len(meta) : JsonLoads(meta_file.data[i]) = meta[i]
    /\ LoadMeta(meta_file) = meta
    /\ LoadIndex(index_file) = index

\* C14's case: a visit has returned ok on a store of two records, so that both
\* files have been written twice and numbers other than 0 and 1 are in the lines
C14_Witness ==
  /\ ReportedSuccess
  /\ last.op = "visit"
  /\ Len(meta) >= 2
  /\ \E i \in 1..Len(log) : log[i].op = "index" /\ log[i].n > 0
  /\ meta[1].visits >= 2
  /\ meta[2].offset_start >= 1

\* the place of row r in the labels the similarity search answered with
RankIn(I, r) == CHOOSE i \in 1..Len(I) : I[i] = r

\* C15: a search with top_k >= 1 returns at most top_k hits, by final score
\* descending, and hits of equal final score in the order in which the similarity
\* search listed them.
C15_Ordered ==
  Searched =>
    /\ Len(last.ret) <= last.top_k
    /\ last.ret = [p \in 1..Len(last.ranked) |-> last.ranked[p].hit]
    /\ \A p, q \in 1..Len(last.ranked) :
         p < q =>
           /\ last.ranked[p].hit.score >= last.ranked[q].hit.score
           /\ last.ranked[p].hit.score = last.ranked[q].hit.score =>
                RankIn(last.I, last.ranked[p].row) < RankIn(last.I, last.ranked[q].row)

\* C15's case: a search returned top_k = 2 hits out of more candidates, the two with
\* equal final score, while a candidate of another score was left out
C15_Witness ==
  /\ Searched
  /\ last.top_k = 2
  /\ Len(last.ranked) = 2
  /\ last.ranked[1].hit.score = last.ranked[2].hit.score
  /\ \E r \in Candidates :
       /\ r + 1 <= Len(meta)
       /\ FinalScore(SimOf(r), AgeOf(r), meta[r + 1].visits) < last.ranked[2].hit.score

\* this step is a search on a store with no index or with no vectors
SearchEmpty ==
  log' # log /\ last'.op = "search" /\ (Vectors.is_none \/ NTotal(Vectors) = 0)

\* C16: a search on a store with no index, or with an index of no vectors, raises
\* nothing, returns the empty sequence, does not call the embedding provider, and
\* leaves ledger, vectors and files as they were.
C16_EmptySearch ==
  [][SearchEmpty =>
       /\ last'.raised = ""
       /\ last'.ret = <<>>
       /\ last'.provider = -1
       /\ Ledger' = Ledger
       /\ Vectors' = Vectors
       /\ index_file' = index_file
       /\ meta_file' = meta_file]_vars

\* C16's case: a search has returned on a store with no index, after an
\* index_document call that appended nothing
C16_Witness ==
  /\ last.op = "search"
  /\ last.ret = <<>>
  /\ last.raised = ""
  /\ index.is_none
  /\ ~index_file.exists
  /\ \E i \in 1..Len(log) : log[i].op = "index"

(***************************************************************************)
(* process_documents_core: batch ingestion of a directory.  A file is its  *)
(* name, whether MarkItDown converts it, the text it converts to, and what *)
(* the embedding provider does when the file's chunks are sent (dim).      *)
(***************************************************************************)
MaxBatches == 2
MaxFiles == 3

Directory == <<"s">>

\* Path(root) / f, as str
PathOf(name) == Directory \o <<"/">> \o name

\* path.stem: the name without its last suffix; a leading or trailing dot starts none
Stem(name) ==
  LET dots == {i \in 1..Len(name) : name[i] = "."}
      last_dot == IF dots = {} THEN 0 ELSE CHOOSE i \in dots : \A j \in dots : j <= i
  IN  IF last_dot > 1 /\ last_dot < Len(name) THEN SubSeq(name, 1, last_dot - 1) ELSE name

\* not text.strip(): nothing but whitespace
IsBlank(text) == \A i \in 1..Len(text) : text[i] = " "

\* the module's globals and files, as one value
StoreOf == [index |-> index, meta |-> meta, index_file |-> index_file,
            meta_file |-> meta_file]

\* index_page_core as a function of the store it finds: the store it leaves, the
\* error it raises, and the indexed_chunks it returns (-1 when it raises)
IndexPage(s, url, title, text, dim, ts) ==
  LET idx0 == LoadedIndex(s.index, s.index_file)
      m0 == LoadedMeta(s.index, s.meta, s.meta_file)
      rows == BuildRows(m0, url, title, text, ts, CHUNK_SIZE, CHUNK_OVERLAP,
                        MAX_CHUNKS_PER_DOC)
      loaded == [s EXCEPT !.index = idx0, !.meta = m0]
      idx1 == AppendIndex(idx0, EmbedBatch(Payloads(rows), dim))
      m1 == ExtendMeta(m0, rows)
  IN  IF rows = <<>> THEN [store |-> loaded, raised |-> "", n |-> 0]
      ELSE IF dim = 0 THEN [store |-> loaded, raised |-> "ProviderError", n |-> -1]
      ELSE IF ~DimensionOk(idx0, dim)
        THEN [store |-> loaded, raised |-> "AssertionError", n |-> -1]
      ELSE [store |-> [index |-> idx1, meta |-> m1,
                       index_file |-> SavedIndexFile(idx1, s.index_file),
                       meta_file |-> SavedMetaFile(m1)],
            raised |-> "", n |-> Len(rows)]

\* a slip: the count is added before the call is known to have succeeded
AddedAlways(added, r) == added + r.n

\* added += index_page_core(...)["indexed_chunks"], skipped when the call raised
Added(added, r) == IF r.raised = "" THEN added + r.n ELSE added

RECURSIVE Walk(_, _, _, _, _, _)
\* the loop over the files: hidden files, files that do not convert, blank texts
\* and files whose indexing raises are passed over; calls lists the
\* index_page_core calls made
Walk(files, k, s, added, calls, ts) ==
  IF k > Len(files) THEN [store |-> s, added |-> added, calls |-> calls]
  ELSE LET f == files[k]
           r == IndexPage(s, PathOf(f.name), Stem(f.name), f.text, f.dim, ts)
       IN  IF f.name[1] = "." THEN Walk(files, k + 1, s, added, calls, ts)
           ELSE IF ~f.converts THEN Walk(files, k + 1, s, added, calls, ts)
           ELSE IF IsBlank(f.text) THEN Walk(files, k + 1, s, added, calls, ts)
           ELSE Walk(files, k + 1, r.store, Added(added, r),
                     Append(calls, [url |-> PathOf(f.name), title |-> Stem(f.name),
                                    text |-> f.text, raised |-> r.raised, n |-> r.n]),
                     ts)

\* One call of process_documents_core(directory), run alone, on a directory whose
\* walk yields files.
ProcessDocuments(files) ==
  LET w == Walk(files, 1, StoreOf, 0, <<>>, IsoFormat(clock))
  IN  /\ Idle
      /\ index' = w.store.index
      /\ meta' = w.store.meta
      /\ index_file' = w.store.index_file
      /\ meta_file' = w.store.meta_file
      /\ last' = [op |-> "batch", files |-> files, raised |-> "", prev |-> <<>>,
                  before |-> Len(LoadedMeta(index, meta, meta_file)), calls |-> w.calls,
                  ret |-> [ok |-> TRUE, indexed_chunks |-> w.added]]
      /\ log' = Append(log, [op |-> "batch", arg |-> files, n |-> w.added])
      /\ UNCHANGED <<config, clock, okVisits, gen, threads>>

\* the files of the model: two that index, a hidden one, one MarkItDown fails on,
\* one with blank text, and one on which the provider fails
Files ==
  {[name |-> <<"a", ".", "t">>, converts |-> TRUE, text |-> <<"x", "y", "a">>, dim |-> 2],
   [name |-> <<"b", ".", "t">>, converts |-> TRUE, text |-> <<"b">>, dim |-> 2],
   [name |-> <<".", "h">>, converts |-> TRUE, text |-> <<"a">>, dim |-> 2],
   [name |-> <<"c", ".", "t">>, converts |-> FALSE, text |-> <<>>, dim |-> 2],
   [name |-> <<"e", ".", "t">>, converts |-> TRUE, text |-> <<" ", " ">>, dim |-> 2],
   [name |-> <<"f", ".", "t">>, converts |-> TRUE, text |-> <<"b", "a">>, dim |-> 0]}

\* the walks: up to MaxFiles different files, in any order
Batches == UNION {InjSeqs(Files, n) : n \in 0..MaxFiles}

InitBatch ==
  /\ CHUNK_SIZE = 2
  /\ CHUNK_OVERLAP = 1
  /\ MAX_CHUNKS_PER_DOC = 2
  /\ InitStore

NextBatch == \E files \in Batches : Len(log) < MaxBatches /\ ProcessDocuments(files)

SpecBatch == InitBatch /\ [][NextBatch]_vars

\* a file the walk is to index: not hidden, converted, with text that is not blank
Eligible(f) == f.name[1] # "." /\ f.converts /\ ~IsBlank(f.text)

\* the rows past the first n of a ledger m that carry a url
RowsOf(m, n, url) == SelectSeq(SubSeq(m, n + 1, Len(m)), LAMBDA row : row.url = url)

RECURSIVE SumOver(_, _)
\* the sum of the indexed_chunks the calls returned, raised calls left out
SumOver(calls, i) ==
  IF i = 0 THEN 0
  ELSE SumOver(calls, i - 1) + (IF calls[i].raised = "" THEN calls[i].n ELSE 0)

\* this step is a batch_ingest call
BatchStep == log' # log /\ last'.op = "batch"

\* C17: a batch_ingest call raises nothing; it calls index_document once for each
\* file that is not hidden and converts to text that is not blank, in walk order;
\* the ledger it found stays as a prefix; each such file on which the provider
\* works gets its chunks indexed, whatever failed before it in the walk; a file
\* that is skipped or fails gets no record; and the returned indexed_chunks is
\* the sum over the calls that succeeded, which is the number of records added.
C17_Batch ==
  [][BatchStep =>
       LET files == last'.files
           todo == SelectSeq(files, Eligible)
           calls == last'.calls
       IN  /\ last'.raised = ""
           /\ last'.ret.ok
           /\ Len(calls) = Len(todo)
           /\ \A j \in 1..Len(todo) :
                /\ calls[j].url = PathOf(todo[j].name)
                /\ calls[j].title = Stem(todo[j].name)
                /\ calls[j].text = todo[j].text
                /\ calls[j].raised = "" <=> todo[j].dim # 0
           /\ SubSeq(Ledger', 1, Len(Ledger)) = Ledger
           /\ \A k \in 1..Len(files) :
                LET url == PathOf(files[k].name)
                    rows == RowsOf(Ledger', Len(Ledger), url)
                    chunks == ToIndex(Ledger, url, files[k].text)
                IN  IF Eligible(files[k]) /\ files[k].dim # 0
                      THEN [i \in 1..Len(rows) |-> rows[i].chunk]
                             = [i \in 1..Len(chunks) |-> chunks[i].chunk]
                      ELSE rows = <<>>
           /\ last'.ret.indexed_chunks = SumOver(calls, Len(calls))
           /\ Len(Ledger') = Len(Ledger) + last'.ret.indexed_chunks]_vars

\* C17's case: a walk of three files has returned, the first indexed, the second
\* failed at the provider, the third indexed
C17_Witness ==
  /\ last.op = "batch"
  /\ Len(last.files) = 3
  /\ Len(last.calls) = 3
  /\ last.calls[1].n > 0
  /\ last.calls[2].raised = "ProviderError"
  /\ last.calls[3].n > 0
  /\ last.ret.indexed_chunks = last.calls[1].n + last.calls[3].n
  /\ Len(meta) = last.ret.indexed_chunks

\* this step is an index_document call that returned
IndexReturned == log' # log /\ last'.op = "index" /\ last'.raised = ""

\* the highest visits among the records of a url in a ledger, 0 when it has none
HighestVisits(m, url) ==
  LET vs == {m[i].visits : i \in {j \in 1..Len(m) : m[j].url = url}}
  IN  IF vs = {} THEN 0 ELSE CHOOSE v \in vs : \A w \in vs : w <= v

\* all records of one url carry one visits value, and it is at least 1
SameVisits ==
  \A i, j \in 1..Len(Ledger) :
    /\ Ledger[i].visits >= 1
    /\ Ledger[i].url = Ledger[j].url => Ledger[i].visits = Ledger[j].visits

\* C18: every record an index_document call appends has visits = max(1, the highest
\* visits among the records of its url that were in the ledger), and in every state
\* reached by calls made one at a time from an empty store the records of one url
\* carry the same visits value, at least 1.
C18_VisitsInit ==
  [][/\ IndexReturned =>
          \A i \in (Len(Ledger) + 1)..Len(Ledger') :
            /\ Ledger'[i].url = last'.url
            /\ Ledger'[i].visits = Max(1, HighestVisits(Ledger, last'.url))
     /\ SameVisits']_vars

\* C18's case: an index_document call has appended a record to a url whose records
\* had been visited
C18_Witness ==
  /\ last.op = "index"
  /\ last.raised = ""
  /\ last.before > 0
  /\ Len(meta) > last.before
  /\ meta[Len(meta)].visits >= 2
  /\ meta[1].url = meta[Len(meta)].url

\* the fields of a ledger record that are written once
Fixed(row) ==
  [url |-> row.url, title |-> row.title, timestamp |-> row.timestamp,
   chunk_id |-> row.chunk_id, offset_start |-> row.offset_start,
   snippet |-> row.snippet, chunk_hash |-> row.chunk_hash, chunk |-> row.chunk]

\* store b continues store a: no fewer vectors and records, the vectors of a
\* unchanged at their rows, the records of a unchanged in their fixed fields
Continues(ia, ma, ib, mb) ==
  /\ NTotal(ib) >= NTotal(ia)
  /\ Len(mb) >= Len(ma)
  /\ SubSeq(ib.xb, 1, NTotal(ia)) = ia.xb
  /\ \A i \in 1..Len(ma) : Fixed(mb[i]) = Fixed(ma[i])

\* C19: no step (a call, with the lazy reload it starts with while the index is
\* absent from memory, a clock tick, a restart) takes a vector or a record out of
\* the store, changes a vector, or changes the url, title, timestamp, chunk_id,
\* offset_start, snippet, chunk_hash or chunk of a record; during a call the same
\* holds of _index and _meta in memory.
C19_AppendOnly ==
  [][/\ Continues(Vectors, Ledger, Vectors', Ledger')
     /\ last'.op # "restart" => Continues(index, meta, index', meta')]_vars

\* C19's case: rows were indexed, the process restarted, and an index_document call
\* reloaded the store and appended to it
C19_Witness ==
  /\ Len(log) = 3
  /\ log[1].op = "index" /\ log[1].n > 0
  /\ log[2].op = "restart"
  /\ log[3].op = "index" /\ log[3].n > 0
  /\ Len(meta) = log[1].n + log[3].n
  /\ NTotal(index) = Len(meta)

\* C20: a record_visit call for a url with ledger records leaves the vectors, in
\* memory and as the index file reads back, and the ledger length as they were,
\* leaves every record of another url as it was, and leaves every field other than
\* visits and last_seen of the url's records as it was.
C20_VisitFrame ==
  [][VisitKnown =>
       /\ Vectors' = Vectors
       /\ LoadIndex(index_file') = Vectors
       /\ Len(Ledger') = Len(Ledger)
       /\ \A i \in 1..Len(Ledger) :
            /\ DOMAIN Ledger'[i] = DOMAIN Ledger[i]
            /\ Fixed(Ledger'[i]) = Fixed(Ledger[i])
            /\ Ledger[i].url # last'.url => Ledger'[i] = Ledger[i]]_vars

\* C20's case: a visit has returned ok on a store that also holds records of another
\* url, at a later time than the records were indexed
C20_Witness ==
  /\ last.op = "visit"
  /\ last.ret.ok
  /\ \E i, j \in 1..Len(meta) :
       /\ meta[i].url = last.url
       /\ meta[i].last_seen # meta[i].timestamp
       /\ meta[j].url # last.url
       /\ meta[j].visits = 1

(***************************************************************************)
(* index_page_core and the embedding provider: calls of index_page_core,   *)
(* with empty texts among them, and restarts of the process.               *)
(***************************************************************************)
NextEmbed ==
  \/ \E url \in Urls, title \in Titles, text \in Texts, dim \in {0} \cup Dims :
       CallsMade < MaxCalls /\ IndexDocument(url, title, text, dim)
  \/ Restart

SpecEmbed == InitRestart /\ [][NextEmbed]_vars

\* this step is a call of index_page_core that has returned or raised
IndexCalled == log' # log /\ last'.op = "index"

InitChunkAny ==
  /\ CHUNK_SIZE \in 0..MaxChunkSize
  /\ CHUNK_OVERLAP \in -1..MaxChunkSize
  /\ MAX_CHUNKS_PER_DOC = 500
  /\ index = NoIndex
  /\ meta = <<>>
  /\ index_file = NoFile
  /\ meta_file = NoFile
  /\ clock = 0
  /\ last = [op |-> "none", raised |-> "", prev |-> <<>>]
  /\ okVisits = [u \in AllUrls |-> 0]
  /\ log = <<>>
  /\ pc = [t \in Threads |-> "idle"]
  /\ loc = [t \in Threads |-> <<>>]
  /\ \E n \in 0..MaxTextLen : gen = NewGen(TextOfLen(n), CHUNK_SIZE, CHUNK_OVERLAP)

SpecChunkFair == InitChunkAny /\ [][NextChunk]_vars /\ WF_vars(GenNext)

\* C22: the generator is exhausted after finitely many windows whatever the text,
\* size and overlap; it never yields more windows than the text has characters;
\* when size - overlap <= 0 the windows start at 0, 1, 2, ... and an exhausted
\* generator has yielded exactly len(text) of them; an empty text yields none.
C22_Terminates ==
  /\ <>(gen.state = "done")
  /\ [](Len(gen.out) <= gen.n)
  /\ [](gen.size - gen.overlap <= 0 =>
          \A k \in 1..Len(gen.out) : gen.out[k].off = k - 1)
  /\ []((gen.state = "done" /\ gen.size - gen.overlap <= 0) => Len(gen.out) = gen.n)
  /\ []((gen.state = "done" /\ gen.n = 0) => gen.out = <<>>)

\* C22's case: a generator whose overlap exceeds its size is exhausted, having
\* yielded one window per character of a text of three characters or more
C22_Witness ==
  /\ gen.state = "done"
  /\ gen.size > 0
  /\ gen.overlap > gen.size
  /\ gen.n >= 3
  /\ Len(gen.out) = gen.n

====
